---- MODULE Spec2Model ----
(***************************************************************************)
(* The LinkedIn three-legged OAuth2 command line flow of src/main.rs:      *)
(* generate_csrf, generate_auth_code_url, the read of the pasted           *)
(* authorization code, request_access_key, controller and main.            *)
(*                                                                         *)
(* A Rust string is a sequence of one-character strings, so that the       *)
(* query-string encoding done by the request builder is computed           *)
(* character by character.                                                 *)
(***************************************************************************)
EXTENDS Integers, Sequences, FiniteSets, TLC

VARIABLES
    pc,                 \* position of the process in main/controller
    args,               \* the parsed command line (ArgMatches)
    csrf,               \* controller's csrf
    url,                \* controller's url
    readResult,         \* the io::Result of read_line
    authorization_code, \* controller's authorization_code buffer
    network,            \* what the transport did with the token request
    sent,               \* the requests handed to send(), oldest first
    data,               \* request_access_key's parsed response
    ret,                \* controller's return value
    terminal,           \* standard output: what println! wrote
    stderr              \* what eprintln! and the panic hook wrote

vars == <<pc, args, csrf, url, readResult, authorization_code, network,
          sent, data, ret, terminal, stderr>>

----------------------------------------------------------------------------
(* Characters and bytes. *)

\* The ASCII characters 32..95 and 97..126, in byte order (SANY reads no
\* string holding the grave accent, byte 96, so no input of the model has it).
Printable ==
    <<" ", "!", "\"", "#", "$", "%", "&", "'", "(", ")", "*", "+", ",", "-",
      ".", "/", "0", "1", "2", "3", "4", "5", "6", "7", "8", "9", ":", ";",
      "<", "=", ">", "?", "@", "A", "B", "C", "D", "E", "F", "G", "H", "I",
      "J", "K", "L", "M", "N", "O", "P", "Q", "R", "S", "T", "U", "V", "W",
      "X", "Y", "Z", "[", "\\", "]", "^", "_">>

PrintableLow ==
    <<"a", "b", "c", "d", "e", "f", "g", "h", "i", "j", "k", "l", "m", "n",
      "o", "p", "q", "r", "s", "t", "u", "v", "w", "x", "y", "z", "{", "|",
      "}", "~">>

\* The byte of an ASCII character (every string of the model is ASCII).
ByteOf(c) ==
    IF c = "\t" THEN 9
    ELSE IF c = "\n" THEN 10
    ELSE IF c = "\r" THEN 13
    ELSE IF \E i \in 1..Len(Printable) : Printable[i] = c
         THEN 31 + (CHOOSE i \in 1..Len(Printable) : Printable[i] = c)
         ELSE 96 + (CHOOSE i \in 1..Len(PrintableLow) : PrintableLow[i] = c)

HexDigits ==
    <<"0", "1", "2", "3", "4", "5", "6", "7", "8", "9",
      "A", "B", "C", "D", "E", "F">>

Unreserved ==
    {"*", "-", ".", "_"}
    \cup {Printable[i] : i \in 17..26}
    \cup {Printable[i] : i \in 34..59}
    \cup {PrintableLow[i] : i \in 1..26}

\* The form-urlencoded byte serializer behind RequestBuilder::query:
\* unreserved bytes stay, a space becomes "+", every other byte "%XX".
ByteSerialize(c) ==
    IF c \in Unreserved THEN <<c>>
    ELSE IF c = " " THEN <<"+">>
    ELSE <<"%", HexDigits[(ByteOf(c) \div 16) + 1], HexDigits[(ByteOf(c) % 16) + 1]>>

RECURSIVE UrlEncode(_)
UrlEncode(s) ==
    IF s = <<>> THEN <<>> ELSE ByteSerialize(Head(s)) \o UrlEncode(Tail(s))

\* key=value pairs joined by "&", as Serializer::extend_pairs appends them.
RECURSIVE SerializeQuery(_)
SerializeQuery(pairs) ==
    IF pairs = <<>> THEN <<>>
    ELSE UrlEncode(pairs[1][1]) \o <<"=">> \o UrlEncode(pairs[1][2])
         \o (IF Len(pairs) > 1 THEN <<"&">> ELSE <<>>)
         \o SerializeQuery(Tail(pairs))

----------------------------------------------------------------------------
(* generate_csrf *)

\* The URL_SAFE alphabet of the base64 crate: A-Z a-z 0-9 - _
UrlSafeAlphabet ==
    SubSeq(Printable, 34, 59) \o SubSeq(PrintableLow, 1, 26)
    \o SubSeq(Printable, 17, 26) \o <<"-", "_">>

\* encode_config(bytes, URL_SAFE_NO_PAD): six bits per character, the last
\* group zero-filled, no "=" padding.
RECURSIVE encode_config(_)
encode_config(bytes) ==
    IF Len(bytes) = 0 THEN <<>>
    ELSE IF Len(bytes) = 1 THEN
        <<UrlSafeAlphabet[(bytes[1] \div 4) + 1],
          UrlSafeAlphabet[((bytes[1] % 4) * 16) + 1]>>
    ELSE IF Len(bytes) = 2 THEN
        <<UrlSafeAlphabet[(bytes[1] \div 4) + 1],
          UrlSafeAlphabet[((bytes[1] % 4) * 16) + (bytes[2] \div 16) + 1],
          UrlSafeAlphabet[((bytes[2] % 16) * 4) + 1]>>
    ELSE
        <<UrlSafeAlphabet[(bytes[1] \div 4) + 1],
          UrlSafeAlphabet[((bytes[1] % 4) * 16) + (bytes[2] \div 16) + 1],
          UrlSafeAlphabet[((bytes[2] % 16) * 4) + (bytes[3] \div 64) + 1],
          UrlSafeAlphabet[(bytes[3] % 64) + 1]>>
        \o encode_config(SubSeq(bytes, 4, Len(bytes)))

\* The number of random bytes drawn (256 in the source, bounded here).
RandomBytesLen == 2

\* The values thread_rng().gen::<u8>() is let to return.
RandomByteValues == {0, 251}

generate_csrf(random_bytes) == encode_config(random_bytes)

----------------------------------------------------------------------------
(* The command line *)

AUTH_URL == "https://www.linkedin.com/oauth/v2/authorization"
ACCESS_TOKEN_URL == "https://www.linkedin.com/oauth/v2/accessToken"

ClientIdValues ==
    { <<"i", "d", "1">>, <<"a", "&", "b", "=", "c">> }

ClientSecretValues ==
    { <<"s", "+", "%">> }

\* The default of --redirect-url, and a value with characters the query
\* string reserves.
DefaultRedirectUrl ==
    <<"h", "t", "t", "p", "s", ":", "/", "/", "l", "o", "c", "a", "l", "h",
      "o", "s", "t", ":", "8", "0", "0", "0">>

RedirectUrlValues ==
    { DefaultRedirectUrl,
      <<"h", "t", "t", "p", ":", "/", "/", "x", "/", "?", "a", "=", "1", " ">> }

r_ads == <<"r", "_", "a", "d", "s">>
r_liteprofile ==
    <<"r", "_", "l", "i", "t", "e", "p", "r", "o", "f", "i", "l", "e">>

\* --permissions takes one or more values; its default is r_ads.
PermissionsValues ==
    { <<r_ads>>,
      <<r_ads, r_liteprofile>>,
      <<r_liteprofile, r_ads>>,
      << <<"a", " ", "b">>, <<"c", "+", "d">> >> }

cli ==
    [client_id : ClientIdValues, client_secret : ClientSecretValues,
     permissions : PermissionsValues, redirect_url : RedirectUrlValues]

----------------------------------------------------------------------------
(* Results and errors *)

NoError == [type |-> "none", kind |-> "", source |-> ""]
ValueError == [type |-> "ValueError", kind |-> "", source |-> ""]
ReqError(kind, source) ==
    [type |-> "reqwest::Error", kind |-> kind, source |-> source]
IoError(kind) == [type |-> "io::Error", kind |-> kind, source |-> ""]

Ok(v) == [tag |-> "Ok", value |-> v, err |-> NoError]
Err(e) == [tag |-> "Err", value |-> <<>>, err |-> e]
Running == [tag |-> "Running", value |-> <<>>, err |-> NoError]

\* impl fmt::Display for ValueError
Display(e) ==
    IF e.type = "ValueError"
    THEN "cannot retrieve access key value from the response"
    ELSE e.type

----------------------------------------------------------------------------
(* generate_auth_code_url *)

response_type == <<"r", "e", "s", "p", "o", "n", "s", "e", "_", "t", "y", "p", "e">>
code == <<"c", "o", "d", "e">>
client_id == <<"c", "l", "i", "e", "n", "t", "_", "i", "d">>
client_secret ==
    <<"c", "l", "i", "e", "n", "t", "_", "s", "e", "c", "r", "e", "t">>
redirect_uri == <<"r", "e", "d", "i", "r", "e", "c", "t", "_", "u", "r", "i">>
state == <<"s", "t", "a", "t", "e">>
scope == <<"s", "c", "o", "p", "e">>
grant_type == <<"g", "r", "a", "n", "t", "_", "t", "y", "p", "e">>
authorization_code_grant ==
    <<"a", "u", "t", "h", "o", "r", "i", "z", "a", "t", "i", "o", "n", "_",
      "c", "o", "d", "e">>

\* permissions.join(" ")
RECURSIVE JoinComma(_)
JoinComma(permissions) ==
    IF Len(permissions) = 0 THEN <<>>
    ELSE IF Len(permissions) = 1 THEN permissions[1]
    ELSE permissions[1] \o <<",">> \o JoinComma(Tail(permissions))

RECURSIVE join(_)
join(permissions) ==
    IF Len(permissions) = 0 THEN <<>>
    ELSE IF Len(permissions) = 1 THEN permissions[1]
    ELSE permissions[1] \o <<" ">> \o join(Tail(permissions))

\* A built request's URL: the endpoint (one element), "?" and the query.
UrlWithQuery(endpoint, pairs) == <<endpoint, "?">> \o SerializeQuery(pairs)

\* The builder holds a valid constant URL and string pairs, which always
\* serialise, so build() returns Ok.
generate_auth_code_url(id, redirect, permissions, token) ==
    LET permissions_str == join(permissions)
    IN  Ok(UrlWithQuery(AUTH_URL,
            << <<response_type, code>>, <<client_id, id>>,
               <<redirect_uri, redirect>>, <<state, token>>,
               <<scope, permissions_str>> >>))

----------------------------------------------------------------------------
(* The provider's answer and serde_json::Value *)

Null == [t |-> "Null", v |-> <<>>]
Bool(b) == [t |-> "Bool", v |-> b]
Number(n) == [t |-> "Number", v |-> n]
String(s) == [t |-> "String", v |-> s]
Array(a) == [t |-> "Array", v |-> a]
Object(o) == [t |-> "Object", v |-> o]
Unset == [t |-> "Unset", v |-> <<>>]

abc123 == <<"a", "b", "c", "1", "2", "3">>
PaddedToken == <<" ", "t", "o", "k", " ", "\n">>

\* A response body: its text, and what serde_json makes of the text.
Json(text, value) == [text |-> text, parse |-> "Ok", value |-> value]
NotJson(text) == [text |-> text, parse |-> "Err", value |-> Unset]
NoBody == [text |-> "", parse |-> "None", value |-> Unset]

ResponseBodies ==
    << NotJson("not json"),
       NotJson(""),
       Json("\"abc123\"", String(abc123)),
       Json("[1, 2]", Array(<<Number(1), Number(2)>>)),
       Json("null", Null),
       Json("{}", Object(<<>>)),
       Json("{\"access_token\": \"abc123\"}",
            Object([access_token |-> String(abc123)])),
       Json("{\"access_token\": \" tok \\n\", \"expires_in\": 5184000}",
            Object([access_token |-> String(PaddedToken),
                    expires_in |-> Number(5184000)])),
       Json("{\"access_token\": \"\"}",
            Object([access_token |-> String(<<>>)])),
       Json("{\"error\": \"invalid_grant\", \"error_description\": \"...\"}",
            Object([error |-> String(<<"i", "n", "v", "a", "l", "i", "d">>),
                    error_description |-> String(<<".", ".", ".">>)])),
       Json("{\"access_token\": 12345}",
            Object([access_token |-> Number(12345)])),
       Json("{\"access_token\": null}", Object([access_token |-> Null])),
       Json("{\"access_token\": true}", Object([access_token |-> Bool(TRUE)])),
       Json("{\"access_token\": {\"access_token\": \"abc123\"}}",
            Object([access_token |->
                        Object([access_token |-> String(abc123)])])),
       Json("{\"access_token\": [\"abc123\"]}",
            Object([access_token |-> Array(<<String(abc123)>>)])) >>

\* What send() can meet: a transport failure with its cause, or a response.
TransportCauses == <<"dns error", "connection refused">>

Failed(cause) == [kind |-> "failed", cause |-> cause, body |-> NoBody]
Responded(body) == [kind |-> "responded", cause |-> "", body |-> body]
NoNetwork == [kind |-> "none", cause |-> "", body |-> NoBody]

NetworkOutcomes ==
    [i \in 1..(Len(TransportCauses) + Len(ResponseBodies)) |->
        IF i <= Len(TransportCauses)
        THEN Failed(TransportCauses[i])
        ELSE Responded(ResponseBodies[i - Len(TransportCauses)])]

----------------------------------------------------------------------------
(* request_access_key *)

TokenQueryOtherState(id, secret, auth_code, redirect, token) ==
    << <<response_type, code>>, <<client_id, id>>,
       <<client_secret, secret>>, <<code, auth_code>>,
       <<redirect_uri, redirect>>, <<state, generate_csrf(<<255>>)>>,
       <<grant_type, authorization_code_grant>> >>

\* The query of the token request, in the order the source lists it.
TokenQuery(id, secret, auth_code, redirect, token) ==
    << <<response_type, code>>, <<client_id, id>>,
       <<client_secret, secret>>, <<code, auth_code>>,
       <<redirect_uri, redirect>>, <<state, token>>,
       <<grant_type, authorization_code_grant>> >>

TokenRequest(id, secret, auth_code, redirect, token) ==
    [method |-> "GET",
     url |-> UrlWithQuery(ACCESS_TOKEN_URL,
                          TokenQuery(id, secret, auth_code, redirect, token))]

\* .send()? : a transport failure leaves the function with the reqwest error.
SendAsValueError(net) ==
    IF net.kind = "failed" THEN Err(ValueError) ELSE Ok(net.body)

Send(net) ==
    IF net.kind = "failed"
    THEN Err(ReqError("Request", net.cause))
    ELSE Ok(net.body)

\* response.json()
ResponseJson(body) ==
    IF body.parse = "Ok" THEN Ok(body.value) ELSE Err(ReqError("Decode", body.text))

\* &data["access_token"]: Null unless data is an object holding the key.
Index(value, key) ==
    IF value.t = "Object" /\ key \in DOMAIN value.v THEN value.v[key] ELSE Null

Whitespace == {" ", "\t", "\n", "\r"}

RECURSIVE TrimEnd(_)
TrimEnd(s) ==
    IF s # <<>> /\ s[Len(s)] \in Whitespace
    THEN TrimEnd(SubSeq(s, 1, Len(s) - 1))
    ELSE s

RECURSIVE TrimStart(_)
TrimStart(s) ==
    IF s # <<>> /\ Head(s) \in Whitespace THEN TrimStart(Tail(s)) ELSE s

MatchAccessTokenLenient(value) ==
    IF value.t \in {"String", "Number"} THEN Ok(value.v) ELSE Err(ValueError)

MatchAccessTokenTrimmed(value) ==
    IF value.t = "String" THEN Ok(TrimStart(TrimEnd(value.v)))
    ELSE Err(ValueError)

\* match &data["access_token"] { Value::String(key) => key, _ => Err }
MatchAccessToken(value) ==
    IF value.t = "String" THEN Ok(value.v) ELSE Err(ValueError)

Panic == [tag |-> "Panic", value |-> <<>>, err |-> NoError]

\* The whole function: the request handed to send(), the parsed response
\* (Unset when none was parsed) and how the function is left.
request_access_key(id, secret, auth_code, redirect, token, net) ==
    LET request == TokenRequest(id, secret, auth_code, redirect, token)
        response == Send(net)
        parsed == ResponseJson(response.value)
    IN  IF response.tag = "Err"
        THEN [request |-> request, data |-> Unset, result |-> response]
        ELSE IF parsed.tag = "Err"
        THEN [request |-> request, data |-> Unset,
              result |-> [Panic EXCEPT !.err = parsed.err]]
        ELSE [request |-> request, data |-> parsed.value,
              result |-> MatchAccessToken(Index(parsed.value, "access_token"))]

----------------------------------------------------------------------------
(* Standard input *)

\* What read_line can append: a pasted line with its newline, a line cut by
\* end of input, nothing at all.
StdinLines ==
    << <<"a", "b", "c", "\n">>,
       <<"a", "b", "c">>,
       <<"a", " ", "b", " ", "\r", "\n">>,
       <<" ", "x", "\n">>,
       <<>> >>

----------------------------------------------------------------------------
(* controller and main *)

\* The ? after read_line: an error leaves controller, a line goes on.
AfterReadLineIgnoringError(result) == "request"

AfterReadLine(result) == IF result = "Ok" THEN "request" ELSE "returned"

\* The ? after request_access_key, and the unwinding of a panic.
AfterRequestRetrying(result) ==
    IF result.tag = "Ok" THEN "report"
    ELSE IF result.tag = "Err" THEN "request"
    ELSE "panicked"

AfterRequest(result) ==
    IF result.tag = "Ok" THEN "report"
    ELSE IF result.tag = "Err" THEN "returned"
    ELSE "panicked"

Init ==
    /\ pc = "csrf"
    /\ args \in cli
    /\ csrf = <<>>
    /\ url = <<>>
    /\ readResult = "None"
    /\ authorization_code = <<>>
    /\ network = NoNetwork
    /\ sent = <<>>
    /\ data = Unset
    /\ ret = Running
    /\ terminal = <<>>
    /\ stderr = <<>>

\* let csrf = generate_csrf();
GenerateCsrf ==
    /\ pc = "csrf"
    /\ \E random_bytes \in [1..RandomBytesLen -> RandomByteValues] :
          csrf' = generate_csrf(random_bytes)
    /\ pc' = "build"
    /\ UNCHANGED <<args, url, readResult, authorization_code, network, sent,
                   data, ret, terminal, stderr>>

\* let url = generate_auth_code_url(...)?;
GenerateAuthCodeUrl ==
    /\ pc = "build"
    /\ LET built == generate_auth_code_url(args.client_id, args.redirect_url,
                                           args.permissions, csrf)
       IN  IF built.tag = "Ok"
           THEN /\ url' = built.value
                /\ pc' = "print"
                /\ ret' = ret
           ELSE /\ url' = url
                /\ pc' = "returned"
                /\ ret' = Err(built.err)
    /\ UNCHANGED <<args, csrf, readResult, authorization_code, network, sent,
                   data, terminal, stderr>>

\* println!("... {} ...", url)
PrintUrl ==
    /\ pc = "print"
    /\ terminal' = Append(terminal, [what |-> "url", text |-> url])
    /\ pc' = "read"
    /\ UNCHANGED <<args, csrf, url, readResult, authorization_code, network,
                   sent, data, ret, stderr>>

\* io::stdin().read_line(&mut authorization_code)? with a line read
ReadLine ==
    /\ pc = "read"
    /\ \E i \in 1..Len(StdinLines) :
          authorization_code' = authorization_code \o StdinLines[i]
    /\ readResult' = "Ok"
    /\ pc' = AfterReadLine("Ok")
    /\ UNCHANGED <<args, csrf, url, network, sent, data, ret, terminal, stderr>>

\* the same with standard input failing (bytes that are not UTF-8, a closed
\* descriptor): the buffer is left as it was
ReadLineFails ==
    /\ pc = "read"
    /\ readResult' = "Err"
    /\ ret' = Err(IoError("InvalidData"))
    /\ pc' = AfterReadLine("Err")
    /\ UNCHANGED <<args, csrf, url, authorization_code, network, sent, data,
                   terminal, stderr>>

\* let access_key = request_access_key(...)?;
RequestAccessKey ==
    /\ pc = "request"
    /\ \E i \in DOMAIN NetworkOutcomes :
          LET net == NetworkOutcomes[i]
              call == request_access_key(args.client_id, args.client_secret,
                                         authorization_code,
                                         args.redirect_url, csrf, net)
          IN  /\ network' = net
              /\ sent' = Append(sent, call.request)
              /\ data' = call.data
              /\ ret' = IF call.result.tag = "Panic" THEN ret ELSE call.result
              /\ stderr' = IF call.result.tag = "Panic"
                           THEN Append(stderr, [what |-> "panic",
                                                err |-> call.result.err])
                           ELSE stderr
              /\ pc' = AfterRequest(call.result)
    /\ UNCHANGED <<args, csrf, url, readResult, authorization_code, terminal>>

\* println!("... {} ...", access_key); Ok(())
PrintAccessKey ==
    /\ pc = "report"
    /\ terminal' = Append(terminal, [what |-> "access_key", text |-> ret.value])
    /\ pc' = "returned"
    /\ UNCHANGED <<args, csrf, url, readResult, authorization_code, network,
                   sent, data, ret, stderr>>

\* match controller(&jira_auth) { Ok(()) => {}, Err(err) => eprintln!(...) }
Main ==
    /\ pc = "returned"
    /\ stderr' = IF ret.tag = "Err"
                 THEN Append(stderr, [what |-> "Application error",
                                      err |-> ret.err])
                 ELSE stderr
    /\ pc' = "exited"
    /\ UNCHANGED <<args, csrf, url, readResult, authorization_code, network,
                   sent, data, ret, terminal>>

Next ==
    \/ GenerateCsrf
    \/ GenerateAuthCodeUrl
    \/ PrintUrl
    \/ ReadLine
    \/ ReadLineFails
    \/ RequestAccessKey
    \/ PrintAccessKey
    \/ Main

Spec == Init /\ [][Next]_vars

----------------------------------------------------------------------------
(* Reading a URL back, as the provider does: the query after the first    *)
(* "?", split at "&", each pair split at its first "=", "+" read as a     *)
(* space and "%XX" as the byte XX.                                        *)

CharOf(b) ==
    IF b = 9 THEN "\t"
    ELSE IF b = 10 THEN "\n"
    ELSE IF b = 13 THEN "\r"
    ELSE IF b \in 32..95 THEN Printable[b - 31]
    ELSE IF b \in 97..126 THEN PrintableLow[b - 96]
    ELSE "?"

IsHex(c) == \E i \in 1..Len(HexDigits) : HexDigits[i] = c

HexValue(c) == (CHOOSE i \in 1..Len(HexDigits) : HexDigits[i] = c) - 1

RECURSIVE FormDecode(_)
FormDecode(s) ==
    IF s = <<>> THEN <<>>
    ELSE IF Head(s) = "+" THEN <<" ">> \o FormDecode(Tail(s))
    ELSE IF Head(s) = "%" /\ Len(s) >= 3 /\ IsHex(s[2]) /\ IsHex(s[3])
    THEN <<CharOf((16 * HexValue(s[2])) + HexValue(s[3]))>>
         \o FormDecode(SubSeq(s, 4, Len(s)))
    ELSE <<Head(s)>> \o FormDecode(Tail(s))

Has(s, c) == \E i \in 1..Len(s) : s[i] = c

First(s, c) == CHOOSE i \in 1..Len(s) : s[i] = c /\ \A j \in 1..(i - 1) : s[j] # c

RECURSIVE Split(_, _)
Split(s, c) ==
    IF ~Has(s, c) THEN <<s>>
    ELSE <<SubSeq(s, 1, First(s, c) - 1)>>
         \o Split(SubSeq(s, First(s, c) + 1, Len(s)), c)

ParsePair(s) ==
    IF Has(s, "=")
    THEN <<FormDecode(SubSeq(s, 1, First(s, "=") - 1)),
           FormDecode(SubSeq(s, First(s, "=") + 1, Len(s)))>>
    ELSE <<FormDecode(s), <<>>>>

Endpoint(u) ==
    IF Has(u, "?") THEN SubSeq(u, 1, First(u, "?") - 1) ELSE u

QueryPairs(u) ==
    IF ~Has(u, "?") THEN <<>>
    ELSE LET segments == Split(SubSeq(u, First(u, "?") + 1, Len(u)), "&")
         IN  [i \in 1..Len(segments) |-> ParsePair(segments[i])]

\* The values the query of u gives to key, in order.
RECURSIVE ValuesIn(_, _)
ValuesIn(pairs, key) ==
    IF pairs = <<>> THEN <<>>
    ELSE (IF pairs[1][1] = key THEN <<pairs[1][2]>> ELSE <<>>)
         \o ValuesIn(Tail(pairs), key)

Param(u, key) == ValuesIn(QueryPairs(u), key)

\* The strings of seq in their order, a single space between neighbours.
SpaceJoined(seq) ==
    LET upTo[i \in 0..Len(seq)] ==
            IF i = 0 THEN <<>>
            ELSE IF i = 1 THEN seq[1]
            ELSE upTo[i - 1] \o <<" ">> \o seq[i]
    IN  upTo[Len(seq)]

Printed(what) == \E i \in 1..Len(terminal) : terminal[i].what = what

----------------------------------------------------------------------------
(* Properties *)

Body == network.body

IsObject(body) == body.parse = "Ok" /\ body.value.t = "Object"

HasStringToken(body) ==
    /\ IsObject(body)
    /\ "access_token" \in DOMAIN body.value.v
    /\ body.value.v["access_token"].t = "String"

RequestReturned == sent # <<>> /\ pc \in {"report", "returned", "exited", "panicked"}

\* C1: the state, client_id and redirect_uri of every token request are the
\* ones of the authorization URL shown in the same run, and the state of
\* that URL is the one generated at the start of the run, still unchanged.
StateCarriedThrough ==
    /\ url # <<>> => Param(url, state) = <<csrf>>
    /\ \A i \in 1..Len(terminal) :
          terminal[i].what = "url" => terminal[i].text = url
    /\ \A i \in 1..Len(sent) :
          /\ Param(sent[i].url, state) = Param(url, state)
          /\ Param(sent[i].url, client_id) = Param(url, client_id)
          /\ Param(sent[i].url, redirect_uri) = Param(url, redirect_uri)
          /\ Param(sent[i].url, state) = <<csrf>>

StateCarriedThroughWitness ==
    /\ Len(sent) = 1
    /\ Printed("url")
    /\ args.client_id = <<"a", "&", "b", "=", "c">>
    /\ Param(sent[1].url, state) = <<generate_csrf([i \in 1..RandomBytesLen |-> 251])>>

\* C2: the code parameter of every token request is the line read from
\* standard input with its trailing whitespace removed, and never ends in
\* whitespace.
CodeIsTrimmed ==
    \A i \in 1..Len(sent) :
        /\ Param(sent[i].url, code) = <<TrimEnd(authorization_code)>>
        /\ \A j \in 1..Len(Param(sent[i].url, code)) :
              LET c == Param(sent[i].url, code)[j]
              IN  c = <<>> \/ c[Len(c)] \notin Whitespace

\* C3: a response body that is not JSON, or is JSON but not an object,
\* makes request_access_key return an error value of a kind of its own
\* (not the missing-token error, not the transport error).
MalformedResponseIsAnError ==
    (RequestReturned /\ network.kind = "responded" /\ ~IsObject(Body))
        => /\ pc \in {"returned", "exited"}
           /\ ret.tag = "Err"
           /\ ret.err.type # "ValueError"
           /\ ~(ret.err.type = "reqwest::Error" /\ ret.err.kind = "Request")

\* C4: a JSON object without a string access_token makes
\* request_access_key return ValueError (the missing-token error), and no
\* token is returned or shown.
MissingTokenIsValueError ==
    (RequestReturned /\ network.kind = "responded" /\ IsObject(Body)
        /\ ~HasStringToken(Body))
        => /\ pc \in {"returned", "exited"}
           /\ ret.tag = "Err"
           /\ ret.err = ValueError
           /\ ret.value = <<>>
           /\ ~Printed("access_key")

MissingTokenWitness ==
    /\ pc = "exited"
    /\ network.kind = "responded"
    /\ IsObject(Body)
    /\ "error" \in DOMAIN Body.value.v
    /\ ret.tag = "Err"

\* C5: a JSON object with a string access_token makes request_access_key
\* return exactly that string, whatever else the object holds, and that
\* string is what the run shows.
StringTokenReturnedExactly ==
    (RequestReturned /\ network.kind = "responded" /\ HasStringToken(Body))
        => /\ pc \in {"report", "returned", "exited"}
           /\ ret.tag = "Ok"
           /\ ret.value = Body.value.v["access_token"].v
           /\ pc # "report" =>
                 /\ Len(terminal) = 2
                 /\ terminal[2] = [what |-> "access_key",
                                 text |-> Body.value.v["access_token"].v]

StringTokenWitness ==
    /\ pc = "exited"
    /\ network.kind = "responded"
    /\ HasStringToken(Body)
    /\ "expires_in" \in DOMAIN Body.value.v
    /\ ret.value = PaddedToken

\* C6: a transport failure makes request_access_key return the reqwest
\* error carrying the cause, which is not ValueError; no response is parsed
\* and no token is returned or shown.
TransportFailureIsReqError ==
    (RequestReturned /\ network.kind = "failed")
        => /\ pc \in {"returned", "exited"}
           /\ ret.tag = "Err"
           /\ ret.err.type = "reqwest::Error"
           /\ ret.err.kind = "Request"
           /\ ret.err.source = network.cause
           /\ ret.err # ValueError
           /\ data = Unset
           /\ ret.value = <<>>
           /\ ~Printed("access_key")

TransportFailureWitness ==
    /\ pc = "exited"
    /\ network = Failed("connection refused")
    /\ Len(stderr) = 1
    /\ stderr[1].err.source = "connection refused"

\* C7: a run hands at most one request to the token endpoint, whatever the
\* outcome of that request.
AtMostOneTokenRequest == Len(sent) <= 1

AtMostOneTokenRequestWitness ==
    /\ Len(sent) = 1
    /\ pc = "exited"
    /\ ret.tag = "Err"
    /\ sent[1].url[1] = ACCESS_TOKEN_URL

\* C8: a run that has ended has ended in success, with no error reported,
\* or in failure, with controller's error value reported once by main.
EndsInSuccessOrFailure ==
    pc \in {"exited", "panicked"}
        => \/ /\ pc = "exited"
              /\ ret.tag = "Ok"
              /\ stderr = <<>>
           \/ /\ pc = "exited"
              /\ ret.tag = "Err"
              /\ ret.err # NoError
              /\ stderr = <<[what |-> "Application error", err |-> ret.err]>>

\* C9: the authorization URL is the authorization endpoint followed by a
\* query that reads back as exactly response_type=code, client_id,
\* redirect_uri, state and scope, the scope being the permissions in their
\* order with a single space between them.
AuthUrlReadsBack ==
    url # <<>> =>
        /\ Endpoint(url) = <<AUTH_URL>>
        /\ QueryPairs(url) =
              << <<response_type, code>>,
                 <<client_id, args.client_id>>,
                 <<redirect_uri, args.redirect_url>>,
                 <<state, csrf>>,
                 <<scope, SpaceJoined(args.permissions)>> >>

AuthUrlReadsBackWitness ==
    /\ url # <<>>
    /\ args.permissions = <<r_ads, r_liteprofile>>
    /\ args.redirect_url # DefaultRedirectUrl
    /\ Param(url, scope) =
          << <<"r", "_", "a", "d", "s", " ", "r", "_", "l", "i", "t", "e",
               "p", "r", "o", "f", "i", "l", "e">> >>

\* C10: a token request is sent only after the state was generated, the
\* URL built and shown and a line read; before the line is read, and in a
\* run whose URL construction or read failed, none is sent.
RequestOnlyAfterCodeRead ==
    /\ sent # <<>> =>
          /\ csrf # <<>>
          /\ url # <<>>
          /\ Len(terminal) >= 1
          /\ terminal[1] = [what |-> "url", text |-> url]
          /\ readResult = "Ok"
    /\ pc \in {"csrf", "build", "print", "read"} => sent = <<>> /\ network = NoNetwork
    /\ (readResult # "Ok" \/ url = <<>>) => sent = <<>> /\ network = NoNetwork

RequestOnlyAfterCodeReadWitness ==
    /\ pc = "exited"
    /\ readResult = "Err"
    /\ ret.err.type = "io::Error"
    /\ sent = <<>>

====
